---- MODULE Spec2Model ----
(***************************************************************************)
(* Area-conservation mesh force computes of HOOMD-blue:                    *)
(*   hoomd/md/TriangleAreaConservationMeshForceCompute.cc  (host path)     *)
(*   hoomd/md/AreaConservationMeshForceComputeGPU.cc       (batched path)  *)
(*                                                                         *)
(* Scalar arithmetic.  A Scalar is modelled by an extended rational        *)
(* [n, d] in lowest terms with d >= 0.  d = 0 holds the non-finite values  *)
(* of IEEE arithmetic: 1/0 is +Inf, -1/0 is -Inf and 0/0 is NaN, so that a *)
(* division by zero in the code is a value the model can see instead of a  *)
(* value the model cannot express.  Signed zeros are not distinguished.    *)
(* sqrt is exact on squares of rationals (every position lattice used      *)
(* below produces only those) and rounds down to the denominator           *)
(* otherwise.                                                              *)
(***************************************************************************)
EXTENDS Integers, Sequences, FiniteSets, TLC

Abs(i) == IF i < 0 THEN -i ELSE i

Sign(i) == IF i < 0 THEN -1 ELSE IF i > 0 THEN 1 ELSE 0

RECURSIVE Gcd(_, _)
Gcd(a, b) == IF b = 0 THEN a ELSE Gcd(b, a % b)

\* the Scalar n/d, reduced; any d = 0 is one of +Inf, -Inf, NaN
Norm(n, d) ==
    IF d = 0 THEN [n |-> Sign(n), d |-> 0]
    ELSE LET s == IF d < 0 THEN -1 ELSE 1
             g == Gcd(Abs(n), Abs(d))
         IN  [n |-> (s * n) \div g, d |-> (s * d) \div g]

R(i) == [n |-> i, d |-> 1]

Zero == R(0)

One == R(1)

NaN == [n |-> 0, d |-> 0]

IsNaN(a) == a.d = 0 /\ a.n = 0

IsFinite(a) == a.d # 0

RNeg(a) == [n |-> -a.n, d |-> a.d]

RAdd(a, b) ==
    IF a.d = 0 /\ b.d = 0
    THEN (IF a.n = b.n THEN a ELSE NaN)
    ELSE Norm(a.n * b.d + b.n * a.d, a.d * b.d)

RSub(a, b) == RAdd(a, RNeg(b))

RMul(a, b) == Norm(a.n * b.n, a.d * b.d)

RDiv(a, b) ==
    IF b.d = 0
    THEN (IF a.d = 0 \/ b.n = 0 THEN NaN ELSE Zero)
    ELSE IF b.n = 0
         THEN (IF a.d = 0 THEN a ELSE [n |-> Sign(a.n), d |-> 0])
         ELSE Norm(a.n * b.d * Sign(b.n), a.d * Abs(b.n))

\* a > b and a <= b of IEEE: every comparison with NaN is false
RGt(a, b) ==
    IF IsNaN(a) \/ IsNaN(b) THEN FALSE
    ELSE IF a.d = 0 /\ b.d = 0 THEN a.n > b.n
    ELSE a.n * b.d > b.n * a.d

RLt(a, b) == RGt(b, a)

RLe(a, b) == (~IsNaN(a)) /\ (~IsNaN(b)) /\ ~RGt(a, b)

\* largest k in lo..hi with k*k <= x  (lo*lo <= x < (hi+1)*(hi+1))
RECURSIVE ISqrtIn(_, _, _)
ISqrtIn(x, lo, hi) ==
    IF lo >= hi THEN lo
    ELSE LET mid == (lo + hi + 1) \div 2
         IN  IF mid * mid <= x THEN ISqrtIn(x, mid, hi) ELSE ISqrtIn(x, lo, mid - 1)

ISqrt(x) == ISqrtIn(x, 0, IF x < 46340 THEN x ELSE 46340)

\* sqrt(n/d) = sqrt(n*d)/d
RSqrt(a) ==
    IF a.d = 0 THEN (IF a.n > 0 THEN a ELSE NaN)
    ELSE IF a.n < 0 THEN NaN
    ELSE Norm(ISqrt(a.n * a.d), a.d)

(***************************************************************************)
(* Scalar3 / Scalar4 values and the particle store.                        *)
(***************************************************************************)
V3(x, y, z) == [x |-> x, y |-> y, z |-> z]

P3(i, j, k) == V3(R(i), R(j), R(k))

VAdd(u, v) == V3(RAdd(u.x, v.x), RAdd(u.y, v.y), RAdd(u.z, v.z))

VSub(u, v) == V3(RSub(u.x, v.x), RSub(u.y, v.y), RSub(u.z, v.z))

VScale(s, v) == V3(RMul(s, v.x), RMul(s, v.y), RMul(s, v.z))

VDivS(v, s) == V3(RDiv(v.x, s), RDiv(v.y, s), RDiv(v.z, s))

Dot(u, v) == RAdd(RAdd(RMul(u.x, v.x), RMul(u.y, v.y)), RMul(u.z, v.z))

\* bounds of the model
MaxGhosts == 1

MaxCoord == 1

MaxTypes == 2

\* particle slots of this rank: N local particles followed by the ghosts
NSlots == 4

Slots == 0 .. (NSlots - 1)

Tags == 0 .. (NSlots - 1)

VirialIdx == 0 .. 5

ZeroScalar4 == [x |-> Zero, y |-> Zero, z |-> Zero, w |-> Zero]

ZeroVirial6 == [j \in VirialIdx |-> Zero]

\* what "no value" looks like in the history records
None == [n |-> 0, d |-> -1]

\* the record of the last energyDiff call when there is none to compare with
NoCall == [args |-> <<>>, type |-> 0, ret |-> None,
           valid |-> FALSE, valid_own |-> FALSE, ctx |-> {}]

VARIABLES
    \* particle store
    pos,             \* h_pos: slot -> Scalar3
    N,               \* m_pdata->getN(): slots below N are local, the rest ghosts
    h_rtag,          \* tag -> slot
    box,             \* global box edge lengths (Lx, Ly, Lz)
    pressure_tensor, \* pdata_flag::pressure_tensor
    ntypes_p,        \* m_pdata->getNTypes(): particle types
    \* mesh store
    triangles,       \* the mesh triangle members array: sequence of tag triples
    ntypes_m,        \* getMeshTriangleData()->getNTypes(): mesh triangle types
    gpu_table_bad,   \* the GPU membership table holds an index past N + ghosts
    \* execution configuration
    err_check,       \* isCUDAErrorCheckingEnabled()
    decomposed,      \* m_sysdef->isDomainDecomposed()
    remote_area,     \* sum of the local area sums of the other ranks
    \* the force compute
    m_K, m_Amesh,    \* parameter tables, ntypes_p entries each
    m_force,         \* slot -> Scalar4 (x, y, z force, w energy)
    m_virial,        \* slot -> 6 virial components
    m_area,          \* total area
    m_flags,         \* the GPU fault flag
    m_num_blocks,    \* blocks of the area kernel
    m_partial_sum,   \* entries allocated for the partial sums
    \* what the callers saw, and history
    ret,             \* outcome of the last setParams / getParams call
    gpu_ret,         \* outcome of the last GPU computeForces call
    gpu_call,        \* what the last GPU computeForces call started from
    ediff,           \* the last energyDiff call: arguments, return value, history
    shadow,          \* type -> the values last supplied to setParams
    last_pass,       \* the evaluator that ran since the inputs last changed
    overwrote,       \* the last host pass started from non-zero accumulators
    overwrote_virial, \* the last host pass started from a non-zero virial array
    seq_ret,         \* outcome of the last host computeForces call
    \* the build, and what lies behind the position array
    asserts_on,      \* assert() is compiled in (no NDEBUG)
    stray_pos,       \* what a load past the end of h_pos yields
    E_before         \* total energy of the last host pass on the unflipped mesh

particleVars == <<pos, N, h_rtag, box, pressure_tensor, ntypes_p>>

meshVars == <<triangles, ntypes_m, gpu_table_bad>>

execVars == <<err_check, decomposed, remote_area>>

paramVars == <<m_K, m_Amesh>>

accumulators == <<m_force, m_virial, m_area>>

gpuVars == <<m_flags, m_num_blocks, m_partial_sum, gpu_ret, gpu_call>>

buildVars == <<asserts_on, stray_pos>>

vars == <<particleVars, meshVars, execVars, paramVars, accumulators, gpuVars,
          ret, ediff, shadow, last_pass, overwrote, overwrote_virial, seq_ret, buildVars, E_before>>

\* box.minImage of one component: the shortest periodic representative
MinImage1(w, L) ==
    IF RLe(RDiv(L, R(2)), w) THEN RSub(w, L)
    ELSE IF RLt(w, RNeg(RDiv(L, R(2)))) THEN RAdd(w, L)
    ELSE w

minImage(v) ==
    V3(MinImage1(v.x, box.x), MinImage1(v.y, box.y), MinImage1(v.z, box.z))

(***************************************************************************)
(* Parameters: setParams, setParamsPython, getParams (lines 55-88).        *)
(* m_K and m_Amesh are arrays of ntypes_p Scalars (lines 35-36); new[]     *)
(* leaves them uninitialised.  An access at an index past the allocation   *)
(* is undefined behaviour: a stray store lands on some cell of the two     *)
(* tables or on none of them, a stray load yields any value.               *)
(***************************************************************************)
TableIdx == 0 .. (ntypes_p - 1)

ScalarVals == {R(-1), R(0), R(2), R(5)}

\* type names are numbered: name k is registered iff k < ntypes_m
TypeNames == 0 .. MaxTypes

\* getTypeByName: a registered name gives its index; the guard of getParams
\* (line 79) is written for a name that resolves past the registered types
getTypeByName(name) == name

\* a store to table[type]
StoreOutcomes(table, type, v) ==
    IF type \in DOMAIN table
    THEN {[table EXCEPT ![type] = v]}
    ELSE {table} \cup {[table EXCEPT ![i] = v] : i \in DOMAIN table}

\* a load of table[type]
LoadOutcomes(table, type) ==
    IF type \in DOMAIN table THEN {table[type]} ELSE ScalarVals

\* void setParams(unsigned int type, Scalar K, Scalar A_mesh): the stores of
\* lines 57-58; the warnings of lines 61-65 change nothing
setParams(type, K, A_mesh) ==
    /\ m_K' \in StoreOutcomes(m_K, type, K)
    /\ m_Amesh' \in StoreOutcomes(m_Amesh, type, A_mesh)

\* void setParamsPython(std::string type, pybind11::dict params)
setParamsPython(name, K, A_mesh) ==
    /\ setParams(getTypeByName(name), K, A_mesh)
    /\ ret' = [op |-> "set", status |-> "ok", type |-> getTypeByName(name),
               k |-> None, A_mesh |-> None]
    /\ shadow' = [shadow EXCEPT ![getTypeByName(name)] = [k |-> K, A_mesh |-> A_mesh]]
    /\ last_pass' = "none"
    /\ ediff' = IF ediff.valid_own /\ getTypeByName(name) # ediff.type
                THEN [ediff EXCEPT !.valid = FALSE, !.ctx = {}]
                ELSE NoCall
    /\ E_before' = None

SetParams(name, K, A_mesh) ==
    /\ setParamsPython(name, K, A_mesh)
    /\ UNCHANGED <<particleVars, meshVars, execVars, accumulators, gpuVars, overwrote, overwrote_virial, seq_ret, buildVars>>

\* pybind11::dict getParams(std::string type)
getParams(name) ==
    IF getTypeByName(name) >= ntypes_m
    THEN ret' = [op |-> "get", status |-> "error", type |-> getTypeByName(name),
                 k |-> None, A_mesh |-> None]
    ELSE \E k \in LoadOutcomes(m_K, getTypeByName(name)),
            A \in LoadOutcomes(m_Amesh, getTypeByName(name)) :
            ret' = [op |-> "get", status |-> "ok", type |-> getTypeByName(name),
                    k |-> k, A_mesh |-> A]

GetParams(name) ==
    /\ getParams(name)
    /\ UNCHANGED <<particleVars, meshVars, execVars, paramVars, accumulators, gpuVars,
                   ediff, shadow, last_pass, overwrote, overwrote_virial, seq_ret, buildVars, E_before>>

(***************************************************************************)
(* TriangleAreaConservationMeshForceCompute::computeForces (lines 93-274)  *)
(***************************************************************************)
\* ghost test of lines 219, 241, 261 widened to every slot
IsLocalOrGhost(idx) == idx < NSlots

\* the ghost test one short: the last local particle taken for a ghost
IsLocalShort(idx) == idx < N - 1

\* "do not update ghost particles": idx < m_pdata->getN()
IsLocal(idx) == idx < N

\* the memset of h_force left out: the pass adds onto what the last one left
KeepForce == m_force

\* memset((void*)h_force.data, 0, ...)
ZeroForce == [i \in Slots |-> ZeroScalar4]

\* memset((void*)h_virial.data, 0, ...)
ZeroVirial == [i \in Slots |-> ZeroVirial6]

\* the prefactor with the deviation taken from area2 instead of area2 / 2
PrefactorNoHalf(K, At, area2) ==
    RMul(RDiv(RNeg(K), RMul(RMul(R(2), At), area2)), RSub(area2, At))

\* prefactor = -m_K[0] / (2 * At * area2) * (area2 / 2 - At)
Prefactor(K, At, area2) ==
    RMul(RDiv(RNeg(K), RMul(RMul(R(2), At), area2)),
         RSub(RDiv(area2, R(2)), At))

\* energy_pp = m_K[0] / (6.0 * At) * (area2 / 2 - At) * (area2 / 2 - At)
EnergyPP(K, At, area2) ==
    RMul(RMul(RDiv(K, RMul(R(6), At)), RSub(RDiv(area2, R(2)), At)),
         RSub(RDiv(area2, R(2)), At))

\* the six components computed whether or not the virial is requested
VirialTermAlways(compute_virial, d, F) ==
    [j \in VirialIdx |->
        CASE j = 0 -> RMul(RMul(Norm(1, 2), d.x), F.x)
          [] j = 1 -> RMul(RMul(Norm(1, 2), d.y), F.x)
          [] j = 2 -> RMul(RMul(Norm(1, 2), d.z), F.x)
          [] j = 3 -> RMul(RMul(Norm(1, 2), d.y), F.y)
          [] j = 4 -> RMul(RMul(Norm(1, 2), d.z), F.y)
          [] OTHER -> RMul(RMul(Norm(1, 2), d.z), F.z)]

\* the six components 1/2 * d * F of one vertex (xx, xy, xz, yy, yz, zz); the
\* scratch array keeps its zero initialisation when no virial is requested
VirialTerm(compute_virial, d, F) ==
    IF compute_virial
    THEN [j \in VirialIdx |->
            CASE j = 0 -> RMul(RMul(Norm(1, 2), d.x), F.x)
              [] j = 1 -> RMul(RMul(Norm(1, 2), d.y), F.x)
              [] j = 2 -> RMul(RMul(Norm(1, 2), d.z), F.x)
              [] j = 3 -> RMul(RMul(Norm(1, 2), d.y), F.y)
              [] j = 4 -> RMul(RMul(Norm(1, 2), d.z), F.y)
              [] OTHER -> RMul(RMul(Norm(1, 2), d.z), F.z)]
    ELSE ZeroVirial6

\* from whole surface area A_mesh to the surface of one triangle
TargetAt == RDiv(m_Amesh[0], R(Len(triangles)))

\* h_pos.data[idx]: an index past N + ghosts reads what lies behind the array
PosLoad(idx) == IF idx \in Slots THEN pos[idx] ELSE stray_pos

\* the three asserts of lines 156-158 on the indices of triangle tri
IndicesInRange(tri) ==
    h_rtag[tri[1]] < NSlots /\ h_rtag[tri[2]] < NSlots /\ h_rtag[tri[3]] < NSlots

\* everything computed for triangle tri before the accumulation (lines 145-205)
TriangleTerms(tri, At) ==
    LET idx_a == h_rtag[tri[1]]
        idx_b == h_rtag[tri[2]]
        idx_c == h_rtag[tri[3]]
        dab == minImage(VSub(PosLoad(idx_b), PosLoad(idx_a)))
        dac == minImage(VSub(PosLoad(idx_c), PosLoad(idx_a)))
        rsqab == Dot(dab, dab)
        rsqac == Dot(dac, dac)
        rabrac == Dot(dab, dac)
        area2 == RSqrt(RSub(RMul(rsqab, rsqac), RMul(rabrac, rabrac)))
        prefactor == Prefactor(m_K[0], At, area2)
    IN  [idx_a |-> idx_a, idx_b |-> idx_b, idx_c |-> idx_c,
         da |-> PosLoad(idx_a), db |-> PosLoad(idx_b), dc |-> PosLoad(idx_c),
         area2 |-> area2,
         energy_pp |-> EnergyPP(m_K[0], At, area2),
         Fa |-> VScale(prefactor, VAdd(VScale(RSub(rabrac, rsqac), dab),
                                       VScale(RSub(rabrac, rsqab), dac))),
         Fb |-> VScale(prefactor, VSub(VScale(rsqac, dab), VScale(rabrac, dac))),
         Fc |-> VScale(prefactor, VSub(VScale(rsqab, dac), VScale(rabrac, dab)))]

\* one guarded accumulation block (lines 219-229, 241-249, 261-269)
AddVertex(acc, idx, F, energy_pp, vir) ==
    IF IsLocal(idx)
    THEN [acc EXCEPT
            !.force[idx] = [x |-> RAdd(@.x, F.x), y |-> RAdd(@.y, F.y),
                            z |-> RAdd(@.z, F.z), w |-> RAdd(@.w, energy_pp)],
            !.virial[idx] = [j \in VirialIdx |-> RAdd(@[j], vir[j])]]
    ELSE acc

\* m_area += area2 / 2, then the three accumulation blocks in order a, b, c
AccumulateTriangle(acc, t, compute_virial) ==
    AddVertex(
        AddVertex(
            AddVertex([acc EXCEPT !.area = RAdd(@, RDiv(t.area2, R(2)))],
                      t.idx_a, t.Fa, t.energy_pp,
                      VirialTerm(compute_virial, t.da, t.Fa)),
            t.idx_b, t.Fb, t.energy_pp, VirialTerm(compute_virial, t.db, t.Fb)),
        t.idx_c, t.Fc, t.energy_pp, VirialTerm(compute_virial, t.dc, t.Fc))

\* for (unsigned int i = 0; i < size; i++)
RECURSIVE TriangleLoop(_, _, _, _)
TriangleLoop(acc, i, At, compute_virial) ==
    IF i > Len(triangles) THEN acc
    ELSE TriangleLoop(AccumulateTriangle(acc, TriangleTerms(triangles[i], At),
                                         compute_virial),
                      i + 1, At, compute_virial)

\* the accumulators and m_area at the end of computeForces: memset, m_area = 0,
\* then the triangle loop
SeqPass ==
    TriangleLoop([force |-> ZeroForce, virial |-> ZeroVirial, area |-> Zero], 1,
                 TargetAt, pressure_tensor)

\* the loop up to, and without, triangle n
RECURSIVE TriangleLoopTo(_, _, _, _, _)
TriangleLoopTo(acc, i, n, At, compute_virial) ==
    IF i >= n THEN acc
    ELSE TriangleLoopTo(AccumulateTriangle(acc, TriangleTerms(triangles[i], At),
                                           compute_virial),
                        i + 1, n, At, compute_virial)

\* the triangles on which an assert of lines 156-158 fails
FailingAsserts == { i \in 1 .. Len(triangles) : ~IndicesInRange(triangles[i]) }

FirstFailing == CHOOSE i \in FailingAsserts : \A j \in FailingAsserts : i <= j

\* the accumulators and m_area when the assert stops the process
AbortedPass ==
    TriangleLoopTo([force |-> ZeroForce, virial |-> ZeroVirial, area |-> Zero], 1,
                   FirstFailing, TargetAt, pressure_tensor)

\* sum of the energy accumulator over all particles
RECURSIVE TotalEnergyFrom(_, _)
TotalEnergyFrom(force, i) ==
    IF i >= NSlots THEN Zero ELSE RAdd(force[i].w, TotalEnergyFrom(force, i + 1))

TotalEnergy(force) == TotalEnergyFrom(force, 0)

\* the two triangles abc, abd around the edge ab, and acd, bcd after its flip
MeshBefore == << <<0, 1, 2>>, <<0, 1, 3>> >>

MeshAfter == << <<0, 2, 3>>, <<1, 2, 3>> >>

\* void computeForces(uint64_t timestep)
computeForces ==
    \E r \in {IF asserts_on /\ FailingAsserts # {} THEN AbortedPass ELSE SeqPass} :
        /\ m_force' = r.force
        /\ m_virial' = r.virial
        /\ m_area' = r.area
        /\ seq_ret' = IF asserts_on /\ FailingAsserts # {} THEN "abort" ELSE "ok"
        /\ last_pass' = IF asserts_on /\ FailingAsserts # {} THEN "aborted" ELSE "seq"
        /\ overwrote' = (m_force # [i \in Slots |-> ZeroScalar4])
        /\ overwrote_virial' = (m_virial # [i \in Slots |-> ZeroVirial6])
        /\ E_before' = IF triangles = MeshBefore THEN TotalEnergy(r.force) ELSE E_before
        /\ UNCHANGED <<particleVars, meshVars, execVars, paramVars, gpuVars,
                       buildVars, ret, ediff, shadow>>

(***************************************************************************)
(* TriangleAreaConservationMeshForceCompute::energyDiff (lines 276-361)    *)
(***************************************************************************)
Length(v) == RSqrt(Dot(v, v))

\* if (c > 1.0) c = 1.0; if (c < -1.0) c = -1.0;
Clamp(c) == IF RGt(c, One) THEN One ELSE IF RLt(c, RNeg(One)) THEN RNeg(One) ELSE c

Sine(c) == RSqrt(RSub(One, RMul(c, c)))

\* rab * rac * s / 2.0 - m_Amesh[type_id]
Deviation(r1, r2, s, A_type) == RSub(RDiv(RMul(RMul(r1, r2), s), R(2)), A_type)

Square(a) == RMul(a, a)

\* energyDiff with the scale taken from the current total area m_area
energyDiffCached(idx_a, idx_b, idx_c, idx_d, A_type) ==
    LET dab == minImage(VSub(pos[idx_b], pos[idx_a]))
        dac == minImage(VSub(pos[idx_c], pos[idx_a]))
        dbd == minImage(VSub(pos[idx_d], pos[idx_b]))
        ddc == minImage(VSub(pos[idx_c], pos[idx_d]))
        rab == Length(dab)
        rac == Length(dac)
        rbd == Length(dbd)
        rdc == Length(ddc)
        nab == VDivS(dab, rab)
        nac == VDivS(dac, rac)
        nbd == VDivS(dbd, rbd)
        ndc == VDivS(ddc, rdc)
        energy_old1 == Deviation(rab, rac, Sine(Clamp(Dot(nab, nac))), A_type)
        energy_old2 == Deviation(rab, rbd, Sine(Clamp(RNeg(Dot(nab, nbd)))), A_type)
        energy_new1 == Deviation(rac, rdc, Sine(Clamp(Dot(ndc, nac))), A_type)
        energy_new2 == Deviation(rdc, rbd, Sine(Clamp(RNeg(Dot(ndc, nbd)))), A_type)
    IN  RMul(RDiv(m_K[0], RMul(R(2), m_area)),
             RSub(RSub(RAdd(Square(energy_new1), Square(energy_new2)),
                       Square(energy_old1)), Square(energy_old2)))

\* the value energyDiff returns once m_Amesh[type_id] is loaded as A_type
energyDiffValue(idx_a, idx_b, idx_c, idx_d, A_type) ==
    LET dab == minImage(VSub(pos[idx_b], pos[idx_a]))
        dac == minImage(VSub(pos[idx_c], pos[idx_a]))
        dbd == minImage(VSub(pos[idx_d], pos[idx_b]))
        ddc == minImage(VSub(pos[idx_c], pos[idx_d]))
        rab == Length(dab)
        rac == Length(dac)
        rbd == Length(dbd)
        rdc == Length(ddc)
        nab == VDivS(dab, rab)
        nac == VDivS(dac, rac)
        nbd == VDivS(dbd, rbd)
        ndc == VDivS(ddc, rdc)
        c_baac == Clamp(Dot(nab, nac))
        c_abbd == Clamp(RNeg(Dot(nab, nbd)))
        c_dcca == Clamp(Dot(ndc, nac))
        c_bddc == Clamp(RNeg(Dot(ndc, nbd)))
        s_baac == Sine(c_baac)
        s_abbd == Sine(c_abbd)
        s_dcca == Sine(c_dcca)
        s_bddc == Sine(c_bddc)
        energy_old1 == Deviation(rab, rac, s_baac, A_type)
        energy_old2 == Deviation(rab, rbd, s_abbd, A_type)
        energy_new1 == Deviation(rac, rdc, s_dcca, A_type)
        energy_new2 == Deviation(rdc, rbd, s_bddc, A_type)
    IN  RMul(RDiv(m_K[0], RMul(R(2), m_Amesh[0])),
             RSub(RSub(RAdd(Square(energy_new1), Square(energy_new2)),
                       Square(energy_old1)), Square(energy_old2)))

\* Scalar energyDiff(idx_a, idx_b, idx_c, idx_d, type_id): what it may return
energyDiff(idx_a, idx_b, idx_c, idx_d, type_id) ==
    { energyDiffValue(idx_a, idx_b, idx_c, idx_d, A_type) :
        A_type \in LoadOutcomes(m_Amesh, type_id) }

\* a call of energyDiff by the trial-move driver; its return value is recorded
EnergyDiff(idx_a, idx_b, idx_c, idx_d, type_id) ==
    /\ \E v \in energyDiff(idx_a, idx_b, idx_c, idx_d, type_id) :
          ediff' = [args |-> <<idx_a, idx_b, idx_c, idx_d>>,
                    type |-> type_id,
                    ret |-> v,
                    valid |-> TRUE,
                    valid_own |-> TRUE,
                    ctx |-> IF ediff.valid /\ ediff.type = type_id
                               /\ ediff.args = <<idx_a, idx_b, idx_c, idx_d>>
                            THEN ediff.ctx \cup {last_pass}
                            ELSE {last_pass}]
    /\ UNCHANGED <<particleVars, meshVars, execVars, paramVars, accumulators, gpuVars,
                   ret, shadow, last_pass, overwrote, overwrote_virial, seq_ret, buildVars, E_before>>

(***************************************************************************)
(* The environment of the force compute: the integrator moves particles,   *)
(* the caller switches the pressure-tensor flag, the mesh dynamics flips   *)
(* the shared edge of the two triangles.                                   *)
(***************************************************************************)
MoveParticle(i, p) ==
    /\ pos[i] # p
    /\ pos' = [pos EXCEPT ![i] = p]
    /\ last_pass' = "none"
    /\ ediff' = NoCall
    /\ E_before' = None
    /\ UNCHANGED <<N, h_rtag, box, pressure_tensor, ntypes_p, meshVars, execVars,
                   paramVars, accumulators, gpuVars, ret, shadow, overwrote, overwrote_virial, seq_ret, buildVars>>

SetFlags(b) ==
    /\ pressure_tensor # b
    /\ pressure_tensor' = b
    /\ last_pass' = "none"
    /\ UNCHANGED <<pos, N, h_rtag, box, ntypes_p, meshVars, execVars, paramVars,
                   accumulators, gpuVars, ret, ediff, shadow, overwrote, overwrote_virial, seq_ret, buildVars, E_before>>

FlipEdge ==
    /\ triangles' = IF triangles = MeshBefore THEN MeshAfter ELSE MeshBefore
    /\ last_pass' = "none"
    /\ UNCHANGED <<particleVars, ntypes_m, gpu_table_bad, execVars, paramVars,
                   accumulators, gpuVars, ret, ediff, shadow, overwrote, overwrote_virial, seq_ret, buildVars, E_before>>

(***************************************************************************)
(* AreaConservationMeshForceComputeGPU (AreaConservationMeshForceCompute-  *)
(* GPU.cc).  The two kernels are not part of the host file: they are       *)
(* modelled by what the design says of them.                               *)
(***************************************************************************)
MaxFlag == 2

m_block_size == 256

\* gpu_compute_AreaConservation_force, the flag: an entry past N + ghosts
\* sets it to a non-zero diagnostic; no kernel clears it
KernelFlags ==
    IF gpu_table_bad THEN 1 .. MaxFlag ELSE {m_flags}

\* gpu_compute_AreaConservation_force, the output slots: same physics as host
KernelForce == SeqPass

\* gpu_compute_AreaConservation_area: the local sum of area2 / 2
KernelArea == SeqPass.area

\* isCUDAErrorCheckingEnabled() and (h_flags.data[0] & 1)
FlagRaises(flags) == err_check /\ flags % 2 = 1

\* void AreaConservationMeshForceComputeGPU::computeForces(uint64_t timestep)
GPUcomputeForces ==
    \E r \in {KernelForce}, f \in KernelFlags :
        /\ m_force' = r.force
        /\ m_virial' = r.virial
        /\ m_flags' = f
        /\ gpu_ret' = IF FlagRaises(f) THEN "error" ELSE "ok"
        /\ gpu_call' = [flag_before |-> m_flags, checked |-> err_check,
                        table_bad |-> gpu_table_bad]
        /\ last_pass' = "gpu_forces"
        /\ UNCHANGED <<particleVars, meshVars, execVars, paramVars, m_area,
                       m_num_blocks, m_partial_sum,
                       ret, ediff, shadow, overwrote, overwrote_virial, seq_ret, buildVars, E_before>>

\* MPI_Allreduce(MPI_IN_PLACE, &h_sumA.data[0], 1, ..., MPI_SUM, ...)
Allreduce(local) == RAdd(local, remote_area)

\* void AreaConservationMeshForceComputeGPU::computeArea()
computeArea ==
    /\ m_num_blocks' = (N \div m_block_size) + 1
    /\ m_area' = IF decomposed THEN Allreduce(KernelArea) ELSE KernelArea
    /\ last_pass' = "gpu_area"
    /\ UNCHANGED <<particleVars, meshVars, execVars, paramVars, m_force, m_virial,
                   m_flags, m_partial_sum, gpu_ret, gpu_call,
                   ret, ediff, shadow, overwrote, overwrote_virial, seq_ret, buildVars, E_before>>

\* the execution configuration switches error checking
SetErrorChecking(b) ==
    /\ err_check # b
    /\ err_check' = b
    /\ UNCHANGED <<particleVars, meshVars, decomposed, remote_area, paramVars,
                   accumulators, gpuVars, ret, ediff, shadow, last_pass,
                   overwrote, overwrote_virial, seq_ret, buildVars, E_before>>

\* the mesh store rebuilds the GPU membership table
SetGPUTable(bad) ==
    /\ gpu_table_bad # bad
    /\ gpu_table_bad' = bad
    /\ last_pass' = "none"
    /\ UNCHANGED <<particleVars, triangles, ntypes_m, execVars, paramVars,
                   accumulators, gpuVars, ret, ediff, shadow, overwrote, overwrote_virial, seq_ret, buildVars, E_before>>

(***************************************************************************)
(* Initial states.  The constructors zero the accumulators and the fault   *)
(* flag; m_area and the parameter tables start with whatever the           *)
(* allocation holds.                                                       *)
(***************************************************************************)
\* positions inside the box on the planar lattice i*(1,0,0) + j*(0,3,4):
\* every cross product of two lattice vectors has an integer length
Lattice == { P3(i, 3 * j, 4 * j) : i \in (-MaxCoord) .. 0, j \in 0 .. MaxCoord }

\* x edge short enough for the minimum image to wrap; y and z edges are not
LatticeBox == P3(2 * MaxCoord, 10 * MaxCoord, 10 * MaxCoord)

\* the unit cell of the lattice: a, b, c, d
HomePos == [i \in Slots |->
              CASE i = 0 -> P3(-1, 0, 0)
                [] i = 1 -> P3(0, 0, 0)
                [] i = 2 -> P3(-1, 3, 4)
                [] OTHER -> P3(0, 3, 4)]

\* a convex quadrilateral a c b d with diagonals ab and cd whose edges ab, ac,
\* bd, dc have the lengths 5, 5, 1, 7
KitePos == [i \in Slots |->
              CASE i = 0 -> P3(0, 0, 0)
                [] i = 1 -> P3(4, 3, 0)
                [] i = 2 -> P3(3, -4, 0)
                [] OTHER -> P3(3, 3, 0)]

WideBox == P3(20, 20, 20)

IdentityRTag == [t \in Tags |-> t]

ReverseRTag == [t \in Tags |-> (NSlots - 1) - t]

NoParams == [k |-> None, A_mesh |-> None]

\* the release build: NDEBUG removes every assert
InitRelease ==
    /\ asserts_on = FALSE
    /\ stray_pos = P3(0, 0, 0)

InitCommon ==
    /\ m_force = [i \in Slots |-> ZeroScalar4]
    /\ m_virial = [i \in Slots |-> ZeroVirial6]
    /\ m_area \in {Zero, One}
    /\ m_flags = 0
    /\ m_num_blocks = (N \div m_block_size) + 1
    /\ m_partial_sum = (N \div m_block_size) + 1
    /\ ret = [op |-> "none", status |-> "ok", type |-> 0, k |-> None, A_mesh |-> None]
    /\ gpu_ret = "none"
    /\ gpu_call = [flag_before |-> 0, checked |-> FALSE, table_bad |-> FALSE]
    /\ ediff = NoCall
    /\ shadow = [t \in TypeNames |-> NoParams]
    /\ last_pass = "none"
    /\ overwrote = FALSE
    /\ overwrote_virial = FALSE
    /\ seq_ret = "none"
    /\ E_before = None

(***************************************************************************)
(* Parameter calls alone: every type count, every name, values <= 0 too.   *)
(***************************************************************************)
KValsP == {R(-1), R(2)}

AValsP == {R(0), R(5)}

InitParams ==
    /\ pos = HomePos
    /\ N = NSlots
    /\ h_rtag = IdentityRTag
    /\ box = LatticeBox
    /\ pressure_tensor = FALSE
    /\ ntypes_p \in 1 .. MaxTypes
    /\ ntypes_m \in 1 .. MaxTypes
    /\ triangles = MeshBefore
    /\ gpu_table_bad = FALSE
    /\ err_check = TRUE
    /\ decomposed = FALSE
    /\ remote_area = Zero
    /\ m_K \in [TableIdx -> KValsP]
    /\ m_Amesh \in [TableIdx -> AValsP]
    /\ InitCommon
    /\ InitRelease

NextParams ==
    \/ \E name \in TypeNames, K \in KValsP, A \in AValsP : SetParams(name, K, A)
    \/ \E name \in TypeNames : GetParams(name)

SpecParams == InitParams /\ [][NextParams]_vars

(***************************************************************************)
(* The host evaluator under moving particles, changing flags and           *)
(* parameters, with and without ghosts.                                    *)
(***************************************************************************)
KVals == {R(1), R(2)}

AVals == {R(0), R(5), R(10)}

\* the slot the integrator moves: the last one, a ghost when there are ghosts
Mover == NSlots - 1

\* where it moves: along the lattice line through b, onto b itself as well
Track == { p \in Lattice : p.x = Zero }

InitSeq ==
    /\ pos = HomePos
    /\ N \in (NSlots - MaxGhosts) .. NSlots
    /\ h_rtag \in {IdentityRTag, ReverseRTag}
    /\ box = LatticeBox
    /\ pressure_tensor \in BOOLEAN
    /\ ntypes_p = MaxTypes
    /\ ntypes_m = MaxTypes
    /\ triangles = MeshBefore
    /\ gpu_table_bad = FALSE
    /\ err_check = TRUE
    /\ decomposed = FALSE
    /\ remote_area = Zero
    /\ m_K = [t \in TableIdx |-> R(1)]
    /\ m_Amesh = [t \in TableIdx |-> R(5)]
    /\ InitCommon
    /\ InitRelease

NextSeq ==
    \/ computeForces
    \/ \E p \in Track : MoveParticle(Mover, p)
    \/ \E b \in BOOLEAN : SetFlags(b)
    \/ \E K \in KVals, A \in AVals : SetParams(0, K, A)

SpecSeq == InitSeq /\ [][NextSeq]_vars

(***************************************************************************)
(* The trial-move driver: energyDiff, the edge flip and the host pass.     *)
(***************************************************************************)
\* the quadrilateral a, b, c, d of the flip
Quads == { <<h_rtag[0], h_rtag[1], h_rtag[2], h_rtag[3]>> }

AValsD == {R(5), R(10)}

InitDiff ==
    /\ pos = KitePos
    /\ N = NSlots
    /\ h_rtag = IdentityRTag
    /\ box = WideBox
    /\ pressure_tensor = FALSE
    /\ ntypes_p = MaxTypes
    /\ ntypes_m = MaxTypes
    /\ triangles = MeshBefore
    /\ gpu_table_bad = FALSE
    /\ err_check = TRUE
    /\ decomposed = FALSE
    /\ remote_area = Zero
    /\ m_K = [t \in TableIdx |-> R(1)]
    /\ m_Amesh = [t \in TableIdx |-> R(5)]
    /\ InitCommon
    /\ InitRelease

NextDiff ==
    \/ \E q \in Quads, t \in 0 .. (ntypes_m - 1) : EnergyDiff(q[1], q[2], q[3], q[4], t)
    \/ computeForces
    \/ FlipEdge
    \/ \E t \in 0 .. 1, A \in AValsD : SetParams(t, R(1), A)

SpecDiff == InitDiff /\ [][NextDiff]_vars

(***************************************************************************)
(* The batched evaluator, and the area of both evaluators in a run that    *)
(* may be domain decomposed.                                               *)
(***************************************************************************)
RemoteAreas == {R(0), R(5)}

InitGPU ==
    /\ pos = HomePos
    /\ N \in (NSlots - MaxGhosts) .. NSlots
    /\ h_rtag = IdentityRTag
    /\ box = LatticeBox
    /\ pressure_tensor = FALSE
    /\ ntypes_p = MaxTypes
    /\ ntypes_m = MaxTypes
    /\ triangles = MeshBefore
    /\ gpu_table_bad \in BOOLEAN
    /\ err_check \in BOOLEAN
    /\ decomposed \in BOOLEAN
    /\ remote_area \in (IF decomposed THEN RemoteAreas ELSE {Zero})
    /\ m_K = [t \in TableIdx |-> R(1)]
    /\ m_Amesh = [t \in TableIdx |-> R(5)]
    /\ InitCommon
    /\ InitRelease

NextGPU ==
    \/ GPUcomputeForces
    \/ computeArea
    \/ \E b \in BOOLEAN : SetErrorChecking(b)
    \/ \E b \in BOOLEAN : SetGPUTable(b)
    \/ \E p \in Track : MoveParticle(Mover, p)

SpecGPU == InitGPU /\ [][NextGPU]_vars

NextArea ==
    \/ computeForces
    \/ computeArea
    \/ \E p \in Track : MoveParticle(Mover, p)

SpecArea == InitGPU /\ [][NextArea]_vars

(***************************************************************************)
(* Properties of the host pass.  The reference values are written as a     *)
(* gather: for each slot, the sum of what every triangle holds for it,     *)
(* computed from the inputs only.                                          *)
(***************************************************************************)
ZeroV3 == V3(Zero, Zero, Zero)

\* the terms of every triangle under the current inputs
Terms == [k \in 1 .. Len(triangles) |-> TriangleTerms(triangles[k], TargetAt)]

Add4(p, q) ==
    [x |-> RAdd(p.x, q.x), y |-> RAdd(p.y, q.y), z |-> RAdd(p.z, q.z),
     w |-> RAdd(p.w, q.w)]

\* what one vertex of a triangle holds for slot i
VertexShare(idx, F, energy_pp, i) ==
    IF idx = i THEN [x |-> F.x, y |-> F.y, z |-> F.z, w |-> energy_pp]
    ELSE ZeroScalar4

\* what the first k triangles hold for slot i
RECURSIVE Gather(_, _, _)
Gather(T, k, i) ==
    IF k = 0 THEN ZeroScalar4
    ELSE Add4(Gather(T, k - 1, i),
              Add4(Add4(VertexShare(T[k].idx_a, T[k].Fa, T[k].energy_pp, i),
                        VertexShare(T[k].idx_b, T[k].Fb, T[k].energy_pp, i)),
                   VertexShare(T[k].idx_c, T[k].Fc, T[k].energy_pp, i)))

VirialShare(idx, d, F, i) ==
    IF idx = i THEN VirialTerm(pressure_tensor, d, F) ELSE ZeroVirial6

AddVirial(p, q) == [j \in VirialIdx |-> RAdd(p[j], q[j])]

RECURSIVE GatherVirial(_, _, _)
GatherVirial(T, k, i) ==
    IF k = 0 THEN ZeroVirial6
    ELSE AddVirial(GatherVirial(T, k - 1, i),
                   AddVirial(AddVirial(VirialShare(T[k].idx_a, T[k].da, T[k].Fa, i),
                                       VirialShare(T[k].idx_b, T[k].db, T[k].Fb, i)),
                             VirialShare(T[k].idx_c, T[k].dc, T[k].Fc, i)))

\* the sum of area2 / 2 over the first k triangles
RECURSIVE AreaSum(_, _)
AreaSum(T, k) ==
    IF k = 0 THEN Zero ELSE RAdd(AreaSum(T, k - 1), RDiv(T[k].area2, R(2)))

\* C1: after a host pass every ghost slot (index >= N) holds no force, no
\* energy and no virial, while m_area is the sum of area2 / 2 over all
\* triangles, those with a ghost vertex included, and every local slot holds
\* the force and energy of all the triangle vertices that resolve to it.
C1_GhostExclusion ==
    last_pass = "seq" =>
        LET T == Terms
        IN  /\ \A i \in Slots :
                i >= N => m_force[i] = ZeroScalar4 /\ m_virial[i] = ZeroVirial6
            /\ m_area = AreaSum(T, Len(triangles))
            /\ \A i \in Slots :
                i < N => m_force[i] = Gather(T, Len(triangles), i)

\* a pass has run on a triangle whose vertex c is a ghost with a non-zero
\* force computed for it, and whose vertex a is local and received a force
C1_Witness ==
    /\ last_pass = "seq"
    /\ N < NSlots
    /\ \E k \in 1 .. Len(triangles) :
          LET t == Terms[k]
          IN  /\ t.idx_c >= N
              /\ t.Fc # ZeroV3 /\ IsFinite(t.Fc.x) /\ IsFinite(t.Fc.y)
              /\ m_force[t.idx_c] = ZeroScalar4
              /\ t.idx_a < N
              /\ m_force[t.idx_a] # ZeroScalar4
              /\ RGt(t.area2, Zero)

\* C2: after a host pass the force, energy and virial accumulators and
\* m_area equal values computed from the inputs of that pass alone (mesh,
\* positions, box, parameters, virial flag), whatever earlier passes left in
\* them.
C2_FreshAccumulators ==
    last_pass = "seq" =>
        LET T == Terms
        IN  /\ m_force = [i \in Slots |->
                            IF i < N THEN Gather(T, Len(triangles), i)
                            ELSE ZeroScalar4]
            /\ m_virial = [i \in Slots |->
                             IF i < N THEN GatherVirial(T, Len(triangles), i)
                             ELSE ZeroVirial6]
            /\ m_area = AreaSum(T, Len(triangles))

\* a pass that started from the non-zero results of an earlier pass and ended
\* with non-zero forces and virials of its own
C2_Witness ==
    /\ last_pass = "seq"
    /\ overwrote
    /\ m_force # [i \in Slots |-> ZeroScalar4]
    /\ m_virial # [i \in Slots |-> ZeroVirial6]
    /\ IsFinite(m_force[0].x) /\ IsFinite(m_force[0].w)

\* C2, the consecutive passes: a pass that follows a pass on unchanged inputs
\* leaves every accumulator as it was.
C2_RepeatedPass ==
    [][(last_pass = "seq" /\ last_pass' = "seq") => UNCHANGED accumulators]_vars

AtRest(t) == t.area2 = RMul(R(2), TargetAt)

NoContribution(t) ==
    t.Fa = ZeroV3 /\ t.Fb = ZeroV3 /\ t.Fc = ZeroV3 /\ t.energy_pp = Zero

\* C8 as stated: after a host pass every triangle with area2 = 2 * At holds
\* zero force for its three vertices and zero energy, and a mesh of such
\* triangles only leaves all-zero force and energy accumulators.
C8_RestStateAnyAt ==
    last_pass = "seq" =>
        LET T == Terms
        IN  /\ \A k \in 1 .. Len(triangles) : AtRest(T[k]) => NoContribution(T[k])
            /\ (\A k \in 1 .. Len(triangles) : AtRest(T[k]))
                   => m_force = [i \in Slots |-> ZeroScalar4]

\* C8 with a non-zero target: after a host pass with At # 0 every triangle
\* with area2 = 2 * At holds zero force for its three vertices and zero
\* energy, and a mesh of such triangles only leaves all-zero force and energy
\* accumulators.
C8_RestState ==
    (last_pass = "seq" /\ TargetAt # Zero) =>
        LET T == Terms
        IN  /\ \A k \in 1 .. Len(triangles) : AtRest(T[k]) => NoContribution(T[k])
            /\ (\A k \in 1 .. Len(triangles) : AtRest(T[k]))
                   => m_force = [i \in Slots |-> ZeroScalar4]

\* a pass over a mesh of triangles of positive area, all at rest under a
\* positive stiffness, that overwrote the non-zero forces of an earlier pass
C8_Witness ==
    /\ last_pass = "seq"
    /\ RGt(TargetAt, Zero)
    /\ RGt(m_K[0], Zero)
    /\ \A k \in 1 .. Len(triangles) : AtRest(Terms[k]) /\ RGt(Terms[k].area2, Zero)
    /\ m_force = [i \in Slots |-> ZeroScalar4]
    /\ overwrote

(***************************************************************************)
(* Properties of the parameter calls.                                      *)
(***************************************************************************)
\* C3: whenever getParams succeeds for a registered type whose parameters
\* were set, it returns exactly the K and A_mesh last supplied for that type
\* (setting any other type in between changes nothing of it).
C3_RoundTrip ==
    (/\ ret.op = "get"
     /\ ret.status = "ok"
     /\ ret.type < ntypes_m
     /\ shadow[ret.type] # NoParams)
        => /\ ret.k = shadow[ret.type].k
           /\ ret.A_mesh = shadow[ret.type].A_mesh

\* C4: a parameter call, set or get, with a name that resolves to an index
\* >= the number of mesh triangle types ends with the invalid-type error.
C4_UnknownTypeFails ==
    (ret.op \in {"set", "get"} /\ ret.type >= ntypes_m) => ret.status = "error"

\* C4, the table: a step that ends a parameter call on such a name leaves
\* m_K and m_Amesh as they were.
C4_UnknownTypeKeepsTable ==
    [][(ret'.op \in {"set", "get"} /\ ret'.type >= ntypes_m)
          => UNCHANGED paramVars]_vars

(***************************************************************************)
(* Properties of energyDiff.                                               *)
(***************************************************************************)
\* C6: a step in which energyDiff returns leaves the force, energy and
\* virial accumulators, m_area and the parameter tables unchanged, and when
\* the same call was made earlier with no change of positions, box or
\* parameters since, it returns the same value, whichever passes or flips
\* happened in between.
C6_EnergyDiffPure ==
    [][(ediff'.valid /\ ediff' # ediff)
          => /\ UNCHANGED <<accumulators, paramVars>>
             /\ (ediff.valid /\ ediff'.type = ediff.type /\ ediff'.args = ediff.args)
                   => ediff'.ret = ediff.ret]_vars

\* the same call has returned a finite non-zero value both before and after a
\* host pass that left non-zero accumulators
C6_Witness ==
    /\ ediff.valid
    /\ ediff.ctx = {"none", "seq"}
    /\ IsFinite(ediff.ret) /\ ediff.ret # Zero
    /\ last_pass = "seq"
    /\ m_force # [i \in Slots |-> ZeroScalar4]
    /\ m_area # Zero

\* C9: with all particles local, once computeForces has run on the mesh
\* abc, abd and then on the flipped mesh acd, bcd, the value energyDiff
\* returned for (a, b, c, d, 0) equals the total energy after the flip minus
\* the total energy before it.
C9_FlipConsistency ==
    (/\ triangles = MeshAfter
     /\ last_pass = "seq"
     /\ E_before # None
     /\ N = NSlots
     /\ ediff.valid
     /\ ediff.type = 0
     /\ ediff.args = <<h_rtag[0], h_rtag[1], h_rtag[2], h_rtag[3]>>)
        => ediff.ret = RSub(TotalEnergy(m_force), E_before)

\* C10: a call of energyDiff with a type index t # 0 returns what the same
\* call returned before, as long as the positions and the parameters of type
\* t are what they were, whatever happened to the parameters of type 0.
C10_OwnTypeOnly ==
    [][(/\ ediff.valid_own
        /\ ediff'.valid
        /\ ediff.type # 0
        /\ ediff'.type = ediff.type
        /\ ediff'.args = ediff.args)
          => ediff'.ret = ediff.ret]_vars

(***************************************************************************)
(* Properties of the batched evaluator and of the area scalar.             *)
(***************************************************************************)
\* C5: the batched computeForces never returns normally with a non-zero
\* fault flag.
C5_FlagAlwaysFatal ==
    (last_pass = "gpu_forces" /\ gpu_ret = "ok") => m_flags = 0

\* C7: after a host pass or computeArea, m_area is the local sum of area2 / 2
\* plus, in a domain-decomposed run, the sums of the other processes.
C7_GlobalArea ==
    last_pass \in {"seq", "gpu_area"} =>
        m_area = RAdd(AreaSum(Terms, Len(triangles)),
                      IF decomposed THEN remote_area ELSE Zero)

(***************************************************************************)
(* Properties of the virial array.                                         *)
(***************************************************************************)
\* C11: after a host pass run with the pressure-tensor flag off, all six
\* virial components of every slot are zero, whatever the mesh, the positions
\* and the virial an earlier pass left.
C11_VirialOnlyOnRequest ==
    (last_pass = "seq" /\ ~pressure_tensor) =>
        m_virial = [i \in Slots |-> ZeroVirial6]

\* a pass with the flag off has run over triangles with non-zero forces,
\* starting from the non-zero virial of an earlier pass with the flag on
C11_Witness ==
    /\ last_pass = "seq"
    /\ ~pressure_tensor
    /\ overwrote_virial
    /\ m_virial = [i \in Slots |-> ZeroVirial6]
    /\ m_force # [i \in Slots |-> ZeroScalar4]
    /\ IsFinite(m_force[0].x)

(***************************************************************************)
(* The host pass on a tag map that may hold an index past N + ghosts, in   *)
(* a build with asserts and in one without.  A failed assert ends the      *)
(* process: nothing runs after it.                                         *)
(***************************************************************************)
\* the first index past the particles and ghosts
PastEnd == NSlots

\* the last tag resolves past the end: its particle is not on this process
LostRTag == [t \in Tags |-> IF t = NSlots - 1 THEN PastEnd ELSE t]

\* the particle store rebuilds the tag map
SetRTag(r) ==
    /\ h_rtag # r
    /\ h_rtag' = r
    /\ last_pass' = "none"
    /\ ediff' = NoCall
    /\ E_before' = None
    /\ UNCHANGED <<pos, N, box, pressure_tensor, ntypes_p, meshVars, execVars,
                   paramVars, accumulators, gpuVars, buildVars, ret, shadow,
                   overwrote, overwrote_virial, seq_ret>>

Alive == seq_ret # "abort"

InitTag ==
    /\ pos = HomePos
    /\ N \in (NSlots - MaxGhosts) .. NSlots
    /\ h_rtag \in {IdentityRTag, LostRTag}
    /\ box = LatticeBox
    /\ pressure_tensor = FALSE
    /\ ntypes_p = MaxTypes
    /\ ntypes_m = MaxTypes
    /\ triangles = MeshBefore
    /\ gpu_table_bad = FALSE
    /\ err_check = TRUE
    /\ decomposed = FALSE
    /\ remote_area = Zero
    /\ m_K = [t \in TableIdx |-> R(1)]
    /\ m_Amesh = [t \in TableIdx |-> R(10)]
    /\ InitCommon
    /\ asserts_on \in BOOLEAN
    /\ stray_pos \in Lattice

NextTag ==
    \/ Alive /\ computeForces
    \/ Alive /\ \E r \in {IdentityRTag, LostRTag} : SetRTag(r)
    \/ Alive /\ \E p \in Track : MoveParticle(Mover, p)

SpecTag == InitTag /\ [][NextTag]_vars

\* C12: a host pass that completes normally ran on a mesh all of whose
\* triangle tags resolve to indices below N + ghosts.
C12_BadIndexAborts ==
    (last_pass = "seq" /\ seq_ret = "ok") => FailingAsserts = {}

\* C12, the build with asserts: the pass ends in an abort exactly when some
\* tag resolves past N + ghosts.
C12_AssertingBuildAborts ==
    (asserts_on /\ last_pass \in {"seq", "aborted"}) =>
        ((seq_ret = "abort") <=> (FailingAsserts # {}))

(***************************************************************************)
(* The batched area pass while the local particle count changes.  Only the *)
(* particles of the mesh have their positions modelled; with a larger N    *)
(* the others take part in no triangle and are never read.                 *)
(***************************************************************************)
\* local particle counts on both sides of a multiple of the block size
NVals == {NSlots, m_block_size - 1, m_block_size, 2 * m_block_size}

\* the particle store changes the number of local particles
SetN(n) ==
    /\ N # n
    /\ N' = n
    /\ last_pass' = "none"
    /\ ediff' = NoCall
    /\ E_before' = None
    /\ UNCHANGED <<pos, h_rtag, box, pressure_tensor, ntypes_p, meshVars, execVars,
                   paramVars, accumulators, gpuVars, buildVars, ret, shadow,
                   overwrote, overwrote_virial, seq_ret>>

InitBlocks ==
    /\ pos = HomePos
    /\ N \in NVals
    /\ h_rtag = IdentityRTag
    /\ box = LatticeBox
    /\ pressure_tensor = FALSE
    /\ ntypes_p = MaxTypes
    /\ ntypes_m = MaxTypes
    /\ triangles = MeshBefore
    /\ gpu_table_bad = FALSE
    /\ err_check = TRUE
    /\ decomposed = FALSE
    /\ remote_area = Zero
    /\ m_K = [t \in TableIdx |-> R(1)]
    /\ m_Amesh = [t \in TableIdx |-> R(5)]
    /\ InitCommon
    /\ InitRelease

NextBlocks ==
    \/ computeArea
    \/ \E n \in NVals : SetN(n)
    \/ \E p \in Track : MoveParticle(Mover, p)

SpecBlocks == InitBlocks /\ [][NextBlocks]_vars

\* C13: after every call of computeArea the number of blocks handed to the
\* area kernel is at most the number of entries of the partial-sum buffer.
C13_BlocksFitBuffer ==
    last_pass = "gpu_area" => m_num_blocks <= m_partial_sum

\* C14: a parameter call that completes for a registered triangle type
\* (index below the mesh triangle type count) has indexed m_K and m_Amesh
\* below their allocated length.
C14_TableBounds ==
    (ret.op \in {"set", "get"} /\ ret.status = "ok" /\ ret.type < ntypes_m)
        => ret.type \in DOMAIN m_K /\ ret.type \in DOMAIN m_Amesh

\* C15: a batched computeForces call that starts with the fault flag set by
\* an earlier pass and runs with error checking enabled ends in the fatal
\* error, also when its own membership table holds no out-of-range entry.
C15_StickyFlagRaises ==
    (gpu_ret # "none" /\ gpu_call.flag_before # 0 /\ gpu_call.checked)
        => gpu_ret = "error"

\* C15, the flag itself: no step of the host or of the kernel takes a
\* non-zero flag back to zero.
C15_FlagNeverCleared ==
    [][m_flags # 0 => m_flags' # 0]_vars

\* C15, flags with bit 0 set: a call with error checking enabled that starts
\* from an odd flag, on a table with no out-of-range entry, ends in the error.
C15_OddFlagRaises ==
    (/\ gpu_ret # "none"
     /\ gpu_call.flag_before % 2 = 1
     /\ gpu_call.checked
     /\ ~gpu_call.table_bad)
        => gpu_ret = "error"

(***************************************************************************)
(* Net force.                                                              *)
(***************************************************************************)
NetForce(t) == VAdd(VAdd(t.Fa, t.Fb), t.Fc)

\* the sum of the force accumulator over the slots from i on
RECURSIVE SumForceFrom(_, _)
SumForceFrom(force, i) ==
    IF i >= NSlots THEN ZeroV3
    ELSE VAdd(V3(force[i].x, force[i].y, force[i].z), SumForceFrom(force, i + 1))

\* C16 as stated: after a host pass the three vertex forces of every
\* triangle add up to zero in each component, and with no ghost vertex in
\* the mesh the force accumulator summed over all particles is zero.
C16_NetForceZeroAny ==
    last_pass = "seq" =>
        LET T == Terms
        IN  /\ \A k \in 1 .. Len(triangles) : NetForce(T[k]) = ZeroV3
            /\ N = NSlots => SumForceFrom(m_force, 0) = ZeroV3

\* the prefactor of triangle t is finite: neither At nor area2 is zero
FinitePrefactor(t) == TargetAt # Zero /\ t.area2 # Zero

\* C16 for finite prefactors: after a host pass the three vertex forces of
\* every triangle with At # 0 and area2 # 0 add up to zero in each component,
\* and with no ghost vertex and only such triangles in the mesh the force
\* accumulator summed over all particles is zero.
C16_NetForceZero ==
    last_pass = "seq" =>
        LET T == Terms
        IN  /\ \A k \in 1 .. Len(triangles) :
                FinitePrefactor(T[k]) => NetForce(T[k]) = ZeroV3
            /\ (N = NSlots /\ \A k \in 1 .. Len(triangles) : FinitePrefactor(T[k]))
                   => SumForceFrom(m_force, 0) = ZeroV3

\* a pass over a mesh without ghosts has left non-zero finite forces on the
\* particles, from triangles of non-zero area with non-zero forces
C16_Witness ==
    /\ last_pass = "seq"
    /\ N = NSlots
    /\ \A k \in 1 .. Len(triangles) :
          FinitePrefactor(Terms[k]) /\ Terms[k].Fa # ZeroV3
    /\ \A i \in Slots : m_force[i] # ZeroScalar4 /\ IsFinite(m_force[i].x)
    /\ SumForceFrom(m_force, 0) = ZeroV3

====
